---- MODULE Spec2Model ----
(***************************************************************************)
(* ETAContentScriptOptimized (src/content-optimized.js): the multi-page    *)
(* acquisition pipeline of the invoice exporter.  One content-script       *)
(* instance, the page it lives in (displayed result count, the portal's    *)
(* answers, iframe events) and the popup that sends getAllPagesData.       *)
(***************************************************************************)
EXTENDS Integers, Sequences, FiniteSets, TLC

(* ------------------------------------------------------------------ *)
(* Program constants                                                   *)
(* ------------------------------------------------------------------ *)
ResultsPerPage == 50

ApiBatchSize == 10

DomBatchSize == 5

(* ------------------------------------------------------------------ *)
(* Bounds of the model                                                 *)
(* ------------------------------------------------------------------ *)
\* Faults the environment may inject into one run: a failed fetch, an
\* iframe whose timer fires, an iframe error event, an extraction error, a
\* throwing progress callback.
MaxFaults == 1

\* The largest result count the portal page displays.
MaxCount == 520

\* The result count of the page on which termination is checked.
FairCount == 260

\* Result counts the page may display ("Results: N"); 0 is also what
\* extractTotalCount returns when no element shows a count.
Counts == {0, 120, FairCount, MaxCount}

Ceil(a, b) == (a + b - 1) \div b

Min(a, b) == IF a < b THEN a ELSE b

PageIds == 1..Ceil(MaxCount, ResultsPerPage)

(* ------------------------------------------------------------------ *)
(* The portal: what each page of results holds.  Pages 1..3 hold 120   *)
(* documents as 50/50/20.  Page 4 ignores the page size: 51 entries,   *)
(* one of them without id, internal id or amount and one with an       *)
(* amount only.  Every later page holds one document.                  *)
(* ------------------------------------------------------------------ *)
ItemCount(p) ==
  IF p <= 2 THEN 50 ELSE IF p = 3 THEN 20 ELSE IF p = 4 THEN 51 ELSE 1

RawItem(p, k) ==
  IF p = 4 /\ k = 2
  THEN [uuid |-> "", internalId |-> "", totalAmount |-> 0]
  ELSE IF p = 4 /\ k = 3
  THEN [uuid |-> "", internalId |-> "", totalAmount |-> 1234]
  ELSE [uuid |-> "U" \o ToString(p) \o "." \o ToString(k),
        internalId |-> IF k = 1 THEN "INT" \o ToString(p) ELSE "",
        totalAmount |-> IF k = 5 THEN 0 ELSE 75 * k]

\* The JSON body of a successful answer for page p: { items: [...] }.
ApiBody(p) == [items |-> [k \in 1..ItemCount(p) |-> RawItem(p, k)]]

(* ------------------------------------------------------------------ *)
(* RecordNormalizer                                                    *)
(* ------------------------------------------------------------------ *)
Pad3(n) ==
  IF n < 10 THEN "00" \o ToString(n)
  ELSE IF n < 100 THEN "0" \o ToString(n)
  ELSE ToString(n)

\* formatAmount: a falsy amount renders as '', any other as en-US with two
\* fraction digits (whole amounts below one million are all the portal
\* model produces).
formatAmount(amount) ==
  IF amount = 0 THEN ""
  ELSE IF amount < 1000 THEN ToString(amount) \o ".00"
  ELSE ToString(amount \div 1000) \o "," \o Pad3(amount % 1000) \o ".00"

isValidInvoiceData(invoice) ==
  invoice.electronicNumber # "" \/ invoice.internalNumber # "" \/ invoice.totalAmount # ""

\* Faulty variant: the page offset is left out, serials restart on each page.
SerialOfNoOffset(pageNumber, index) == index + 1

SerialOf(pageNumber, index) == ((pageNumber - 1) * ResultsPerPage) + index + 1

\* Faulty variant: the index of an entry is taken 1-based.
parseAPIResponseOneBased(data, pageNumber) ==
  [k \in 1..Len(data.items) |->
     [serialNumber     |-> SerialOf(pageNumber, k),
      pageNumber       |-> pageNumber,
      electronicNumber |-> data.items[k].uuid,
      internalNumber   |-> data.items[k].internalId,
      totalAmount      |-> formatAmount(data.items[k].totalAmount)]]

\* parseAPIResponse: one record per entry of data.items, index is 0-based.
parseAPIResponse(data, pageNumber) ==
  [k \in 1..Len(data.items) |->
     [serialNumber     |-> SerialOf(pageNumber, k - 1),
      pageNumber       |-> pageNumber,
      electronicNumber |-> data.items[k].uuid,
      internalNumber   |-> data.items[k].internalId,
      totalAmount      |-> formatAmount(data.items[k].totalAmount)]]

\* A rendered grid row of page p: the uuid cell's link text and the total
\* cell's text (cells the markup lacks leave '').
DocRows(p) ==
  [k \in 1..ItemCount(p) |->
     [uuid  |-> RawItem(p, k).uuid,
      total |-> formatAmount(RawItem(p, k).totalAmount)]]

\* extractDataFromRow + extractUsingDataAttributes: only the uuid and total
\* cells are read; internalNumber keeps its default.
extractDataFromRow(row, index) ==
  [index            |-> index,
   serialNumber     |-> index,
   electronicNumber |-> row.uuid,
   internalNumber   |-> "",
   totalAmount      |-> row.total]

WithPage(invoice, pageNumber, index) ==
  [index            |-> invoice.index,
   serialNumber     |-> SerialOf(pageNumber, index),
   pageNumber       |-> pageNumber,
   electronicNumber |-> invoice.electronicNumber,
   internalNumber   |-> invoice.internalNumber,
   totalAmount      |-> invoice.totalAmount]

\* extractDataFromDocument: rows.forEach((row, index) => ...), index 0-based,
\* rows that fail isValidInvoiceData are skipped.
extractDataFromDocument(doc, pageNumber) ==
  SelectSeq([k \in 1..Len(doc) |-> WithPage(extractDataFromRow(doc[k], k), pageNumber, k - 1)],
            isValidInvoiceData)

\* What parsing the portal's answer for each page gives, and what reading
\* each page's rendered document gives (the portal's content is fixed, so
\* these are tables).
ParsedPage == [p \in PageIds |-> parseAPIResponse(ApiBody(p), p)]

ExtractedPage == [p \in PageIds |-> extractDataFromDocument(DocRows(p), p)]

(* ------------------------------------------------------------------ *)
(* State                                                               *)
(* ------------------------------------------------------------------ *)
VARIABLES
  totalCount,            \* this.totalCount
  totalPages,            \* this.totalPages
  isProcessingAllPages,  \* this.isProcessingAllPages
  progressCallback,      \* this.progressCallback: "null" or "set"
  apiEndpoint,           \* this.apiEndpoint: "null" or "url"
  authHeaders,           \* this.authHeaders: "null" or "bearer"
  allPagesData,          \* this.allPagesData
  display,               \* the count the page shows ("Results: N")
  scanned,               \* the scan scheduled by init() has run
  pc,                    \* "idle", "api", "dom", "done"
  path,                  \* acquisition path of the current run
  nPages,                \* number of pages the run enumerated
  startDisplay,          \* the count the page showed when the run started
  startTotal,            \* this.totalCount when the run started
  startInfo,             \* <<apiEndpoint, authHeaders>> when the run started
  hostCall,              \* the host request completed last since the last run
  askedProgress,         \* request.options.progressCallback of the current request
  fetchSt,               \* per page: "none", "inflight", "done", "rejected"
  fetchRes,              \* per page: what its fetchPageDataViaAPI promise holds
  served,                \* pages the portal answered with a well-formed 2xx body
  batchI,                \* loop variable i of loadPagesInParallel
  iframes,               \* per page: its loadPageInIframe call
  results,               \* local results of loadPagesInParallel
  progressLog,           \* progress objects handed to the callback in this run
  result,                \* what getAllPagesDataFast returned
  faults                 \* faults injected into the current run

vars == <<totalCount, totalPages, isProcessingAllPages, progressCallback,
          apiEndpoint, authHeaders, allPagesData, display, scanned,
          pc, path, nPages, startDisplay, startTotal, startInfo, hostCall,
          askedProgress, fetchSt, fetchRes, served, batchI, iframes, results, progressLog,
          result, faults>>

objVars == <<totalCount, totalPages, isProcessingAllPages, progressCallback,
             apiEndpoint, authHeaders, allPagesData>>

NoIframe ==
  [ifr |-> "none", timer |-> "none", evt |-> "none", settled |-> FALSE,
   value |-> <<>>, removeCalls |-> 0]

NoResult == [returned |-> FALSE]

NoHostCall ==
  [mech |-> "none", matches |-> FALSE, token |-> FALSE, unwrapped |-> "none",
   wrapped |-> "none", tap |-> "none"]

\* constructor(): the fields before init() has scanned anything.
Init ==
  /\ totalCount = 0
  /\ totalPages = 1
  /\ isProcessingAllPages = FALSE
  /\ progressCallback = "null"
  /\ apiEndpoint = "null"
  /\ authHeaders = "null"
  /\ allPagesData = <<>>
  /\ display \in Counts
  /\ scanned = FALSE
  /\ pc = "idle"
  /\ path = "none"
  /\ nPages = 0
  /\ startDisplay = 0
  /\ startTotal = 0
  /\ startInfo = <<"null", "null">>
  /\ hostCall = NoHostCall
  /\ askedProgress = FALSE
  /\ fetchSt = [p \in PageIds |-> "none"]
  /\ fetchRes = [p \in PageIds |-> <<>>]
  /\ served = {}
  /\ batchI = 0
  /\ iframes = [p \in PageIds |-> NoIframe]
  /\ results = <<>>
  /\ progressLog = <<>>
  /\ result = NoResult
  /\ faults = 0

(* ------------------------------------------------------------------ *)
(* PaginationInspector and EndpointObserver                            *)
(* ------------------------------------------------------------------ *)
\* extractPaginationInfo: totalPages = Math.ceil(totalCount / resultsPerPage).
PagesFor(count) == Ceil(count, ResultsPerPage)

\* scanForInvoices, scheduled once by init().
Scan ==
  /\ ~scanned
  /\ scanned' = TRUE
  /\ totalCount' = display
  /\ totalPages' = PagesFor(display)
  /\ UNCHANGED <<isProcessingAllPages, progressCallback, apiEndpoint, authHeaders,
                 allPagesData, display, hostCall, pc, path, nPages, startDisplay,
                 startTotal, startInfo, askedProgress, fetchSt, fetchRes, served, batchI, iframes, results,
                 progressLog, result, faults>>

\* The host page shows another count.  Nothing reads the count after the
\* one scan, so changes are followed until then.
DisplayChange ==
  /\ ~scanned
  /\ \E c \in Counts \ {display} : display' = c
  /\ UNCHANGED <<objVars, scanned, hostCall, pc, path, nPages, startDisplay,
                 startTotal, startInfo, askedProgress, fetchSt, fetchRes, served, batchI, iframes, results,
                 progressLog, result, faults>>

\* analyzeRequest + extractAuthHeaders: a URL with '/api/' and 'documents'
\* becomes the endpoint; headers are set when a token is found.  Only the
\* part of the URL before '?' is ever read back (buildAPIUrl).
EndpointAfter(matches, old) == IF matches THEN "url" ELSE old

HeadersAfter(matches, token, old) == IF matches /\ token THEN "bearer" ELSE old

\* What the wrapper around window.fetch (lines 35-39) hands to its caller:
\* a rejection of the original fetch is passed on before anything is
\* analysed; after a response, analyzeRequest and extractAuthHeaders run
\* unguarded inside the async wrapper, so a throw of theirs rejects the
\* promise the caller holds.
WrappedFetchOutcome(unwrapped, tapThrows) ==
  IF unwrapped = "response" /\ tapThrows THEN "failure" ELSE unwrapped

\* What the load listener added by the wrapper around
\* XMLHttpRequest.prototype.open (lines 41-48) does.  The wrapper is a
\* function expression, so `this` inside its arrow listener is the request
\* object, which has no analyzeRequest: for a response from the portal the
\* call raises a TypeError inside the listener and nothing is recorded.
XhrTap(onPortal) == IF onPortal THEN "typeerror" ELSE "skipped"

\* The wrapped window.fetch: a request of the host page settles.  Reading
\* localStorage, sessionStorage or document.cookie may throw (storage access
\* denied).  Nothing reads the endpoint or the headers between the first
\* await of a run and its return, so a tap during a run acts as one after it.
HostFetch ==
  /\ pc = "idle"
  /\ \E matches \in BOOLEAN, token \in BOOLEAN, storageThrows \in BOOLEAN,
        unwrapped \in {"response", "failure"} :
       LET analysed  == unwrapped = "response"
           inspects  == analysed /\ matches
           tapThrows == inspects /\ storageThrows
       IN /\ storageThrows => inspects /\ ~token
          /\ apiEndpoint' = EndpointAfter(inspects, apiEndpoint)
          /\ authHeaders' = HeadersAfter(inspects /\ ~tapThrows, token, authHeaders)
          /\ hostCall' = [mech |-> "fetch", matches |-> matches, token |-> token,
                          unwrapped |-> unwrapped,
                          wrapped |-> WrappedFetchOutcome(unwrapped, tapThrows),
                          tap |-> IF ~analysed THEN "notrun"
                                  ELSE IF tapThrows THEN "threw"
                                  ELSE IF inspects THEN "recorded" ELSE "skipped"]
  /\ UNCHANGED <<totalCount, totalPages, isProcessingAllPages, progressCallback,
                 allPagesData, display, scanned, pc, path, nPages,
                 startDisplay, startTotal, startInfo, askedProgress, fetchSt, fetchRes, served,
                 batchI, iframes, results, progressLog, result, faults>>

\* A request of the host page made with XMLHttpRequest settles: open() went
\* through the wrapper, send() and the response are the browser's own; a
\* load event is delivered only when a response arrived.
HostXHR ==
  /\ pc = "idle"
  /\ \E matches \in BOOLEAN, token \in BOOLEAN, onPortal \in BOOLEAN,
        unwrapped \in {"response", "failure"} :
       hostCall' = [mech |-> "xhr", matches |-> matches, token |-> token,
                    unwrapped |-> unwrapped, wrapped |-> unwrapped,
                    tap |-> IF unwrapped = "response" THEN XhrTap(onPortal)
                            ELSE "notrun"]
  /\ UNCHANGED <<objVars, display, scanned, pc, path, nPages,
                 startDisplay, startTotal, startInfo, askedProgress, fetchSt, fetchRes, served,
                 batchI, iframes, results, progressLog, result, faults>>

(* ------------------------------------------------------------------ *)
(* OutOfBandPageLoader: loadPageInIframe                               *)
(* ------------------------------------------------------------------ *)
\* new Promise(...): iframe appended, timer armed, handlers registered.
NewIframe ==
  [ifr |-> "attached", timer |-> "armed", evt |-> "pending", settled |-> FALSE,
   value |-> <<>>, removeCalls |-> 0]

\* resolve(v): only the first settlement of a promise counts.
Resolve(pg, v) == IF pg.settled THEN pg ELSE [pg EXCEPT !.settled = TRUE, !.value = v]

ClearTimeout(pg) == [pg EXCEPT !.timer = IF @ = "armed" THEN "off" ELSE @]

\* document.body.removeChild(iframe) throws NotFoundError unless the iframe
\* is a child of body.
RemoveThrows(pg) == pg.ifr # "attached"

Detach(pg) == [pg EXCEPT !.ifr = "removed", !.removeCalls = @ + 1]

FailedRemove(pg) == [pg EXCEPT !.removeCalls = @ + 1]

\* Faulty variant: the timer resolves the call but leaves the iframe in place.
OnTimeoutKeepsIframe(pg) == Resolve([pg EXCEPT !.timer = "off"], <<>>)

\* Faulty variant: the timer removes the iframe but never resolves the call.
OnTimeoutNoResolve(pg) == Detach([pg EXCEPT !.timer = "off"])

\* setTimeout callback: removeChild, resolve([]).
OnTimeout(pg) ==
  LET a == [pg EXCEPT !.timer = "off"]
  IN IF RemoveThrows(a) THEN FailedRemove(a) ELSE Resolve(Detach(a), <<>>)

\* iframe.onerror: clearTimeout, removeChild, resolve([]).
OnError(pg) ==
  LET a == ClearTimeout(pg)
  IN IF RemoveThrows(a) THEN FailedRemove(a) ELSE Resolve(Detach(a), <<>>)

\* The catch block of iframe.onload.
OnLoadCatch(pg) ==
  LET a == ClearTimeout(pg)
  IN IF RemoveThrows(a) THEN FailedRemove(a) ELSE Resolve(Detach(a), <<>>)

\* iframe.onload: extract, clearTimeout, removeChild, resolve(data); any
\* throw inside the try block runs the catch block.
OnLoad(pg, data, extractionThrows) ==
  IF extractionThrows THEN OnLoadCatch(pg)
  ELSE LET a == ClearTimeout(pg)
       IN IF RemoveThrows(a) THEN OnLoadCatch(FailedRemove(a))
          ELSE Resolve(Detach(a), data)

(* ------------------------------------------------------------------ *)
(* PageFetcher: fetchPageDataViaAPI                                    *)
(* ------------------------------------------------------------------ *)
\* How the fetch of a page ends: a body, a rejected fetch, a non-2xx
\* status, a body response.json() cannot parse, or a response the wrapper
\* around window.fetch turned into a rejection (credential extraction threw).
FetchOutcomes == {"ok", "neterr", "http", "badjson", "tapthrow"}

\* Faulty variant: a failure is rethrown instead of answered with [].
fetchPageRethrows(outcome, pageNumber) ==
  IF outcome = "ok"
  THEN [st |-> "done", value |-> ParsedPage[pageNumber]]
  ELSE [st |-> "rejected", value |-> <<>>]

\* The promise fetchPageDataViaAPI returns: the whole body is one try block
\* whose catch returns [].
fetchPageDataViaAPI(outcome, pageNumber) ==
  IF outcome = "ok"
  THEN [st |-> "done", value |-> ParsedPage[pageNumber]]
  ELSE [st |-> "done", value |-> <<>>]

(* ------------------------------------------------------------------ *)
(* AggregationPipeline                                                 *)
(* ------------------------------------------------------------------ *)
RECURSIVE ConcatRange(_, _, _)
\* f[lo] \o ... \o f[hi]: Array.prototype.flat over results kept in page order.
ConcatRange(f, lo, hi) ==
  IF hi < lo THEN <<>> ELSE ConcatRange(f, lo, hi - 1) \o f[hi]

\* Faulty variant: the first page's records are appended after the others,
\* as merging in completion order would do.
ApiFlattenFirstLast(res, n) == ConcatRange(res, 2, n) \o ConcatRange(res, 1, Min(1, n))

\* results.flat().flat() over the batches of getAllPagesViaAPI.
ApiFlatten(res, n) == ConcatRange(res, 1, n)

Success(data, expected) ==
  [returned |-> TRUE, success |-> TRUE, data |-> data,
   totalProcessed |-> Len(data), expectedTotal |-> expected]

\* The catch block of getAllPagesDataFast.
Failure(data, message) ==
  [returned |-> TRUE, success |-> FALSE, data |-> data, error |-> message]

\* Faulty variant: the flag is cleared at the end of the try block only.
FlagClearedOnSuccessOnly(success) == ~success

\* The finally block of getAllPagesDataFast: isProcessingAllPages after the
\* invocation has returned its result.
FlagAtExit(success) == FALSE

\* Faulty variant: an endpoint alone selects the API path.
UseApiEndpointOnly == apiEndpoint # "null"

\* getAllPagesDataFast line 96.
UseApi == apiEndpoint # "null" /\ authHeaders # "null"

\* getAllPagesViaAPI: the two nested loops push fetchPageDataViaAPI(page)
\* for every page of every batch before anything is awaited.
ApiIssuedAtStart(n) == 1..n

\* Faulty variant: the slice has no end, every remaining page is loaded at once.
BatchPagesUnbounded(i, n) == (i + 1)..n

\* loadPagesInParallel: urls.slice(i, i + batchSize), page numbers i+index+1.
BatchPages(i, n) == (i + 1)..Min(i + DomBatchSize, n)

\* The listener's getAllPagesData case, lines 552-559: setProgressCallback is
\* called when the options ask for progress; nothing clears the field
\* otherwise.
CallbackAfterRequest(wantProgress, old) == IF wantProgress THEN "set" ELSE old

\* The popup's getAllPagesData message: the listener registers a progress
\* callback when the options ask for one, then getAllPagesDataFast runs up
\* to its first await.
StartRun ==
  /\ pc = "idle"
  /\ \E wantProgress \in BOOLEAN :
       /\ progressCallback' = CallbackAfterRequest(wantProgress, progressCallback)
       /\ askedProgress' = wantProgress
  /\ isProcessingAllPages' = TRUE
  /\ allPagesData' = <<>>
  /\ startDisplay' = display
  /\ startTotal' = totalCount
  /\ startInfo' = <<apiEndpoint, authHeaders>>
  /\ hostCall' = NoHostCall
  /\ nPages' = totalPages
  /\ faults' = 0
  /\ results' = <<>>
  /\ progressLog' = <<>>
  /\ result' = NoResult
  /\ batchI' = 0
  /\ fetchRes' = [p \in PageIds |-> <<>>]
  /\ served' = {}
  /\ IF UseApi
     THEN /\ path' = "api"
          /\ pc' = "api"
          /\ fetchSt' = [p \in PageIds |->
                           IF p \in ApiIssuedAtStart(totalPages) THEN "inflight" ELSE "none"]
          /\ iframes' = [p \in PageIds |-> NoIframe]
     ELSE /\ path' = "dom"
          /\ pc' = "dom"
          /\ fetchSt' = [p \in PageIds |-> "none"]
          /\ iframes' = [p \in PageIds |->
                           IF p \in BatchPages(0, totalPages) THEN NewIframe ELSE NoIframe]
  /\ UNCHANGED <<totalCount, totalPages, apiEndpoint, authHeaders, display, scanned>>

\* One page's fetch settles.  The request went through the wrapped
\* window.fetch, which hands its URL to analyzeRequest once a response is in.
FetchDone ==
  /\ pc = "api"
  /\ \E p \in PageIds, outcome \in FetchOutcomes :
       /\ fetchSt[p] = "inflight"
       /\ outcome # "ok" => faults < MaxFaults
       /\ faults' = IF outcome = "ok" THEN faults ELSE faults + 1
       /\ served' = IF outcome = "ok" THEN served \cup {p} ELSE served
       /\ LET r == fetchPageDataViaAPI(outcome, p)
          IN /\ fetchSt' = [fetchSt EXCEPT ![p] = r.st]
             /\ fetchRes' = [fetchRes EXCEPT ![p] = r.value]
       /\ apiEndpoint' = EndpointAfter(outcome # "neterr", apiEndpoint)
       /\ \E token \in (IF authHeaders = "null" THEN BOOLEAN ELSE {TRUE}) :
            authHeaders' = HeadersAfter(outcome \notin {"neterr", "tapthrow"},
                                        token, authHeaders)
  /\ UNCHANGED <<totalCount, totalPages, isProcessingAllPages, progressCallback,
                 allPagesData, display, scanned, hostCall, pc, path, nPages,
                 startDisplay, startTotal, startInfo, askedProgress, batchI, iframes, results, progressLog,
                 result>>

\* await Promise.all(pagePromises) settles: flatten and return, or the
\* rejection reaches the catch block of getAllPagesDataFast.
ApiFinish ==
  /\ pc = "api"
  /\ \/ \E p \in 1..nPages : fetchSt[p] = "rejected"
     \/ \A p \in 1..nPages : fetchSt[p] = "done"
  /\ result' = IF \E p \in 1..nPages : fetchSt[p] = "rejected"
               THEN Failure(allPagesData, "fetch page rejected")
               ELSE Success(ApiFlatten(fetchRes, nPages), totalCount)
  /\ isProcessingAllPages' = FlagAtExit(\A p \in 1..nPages : fetchSt[p] # "rejected")
  /\ pc' = "done"
  /\ UNCHANGED <<totalCount, totalPages, progressCallback, apiEndpoint, authHeaders,
                 allPagesData, display, scanned, hostCall, path, nPages, startDisplay,
                 startTotal, startInfo, askedProgress, fetchSt, fetchRes, served, batchI, iframes, results,
                 progressLog, faults>>

\* Faulty variant: the end of the batch is not clamped to the number of pages.
ProgressAfterUnclamped(i, n) ==
  [currentPage |-> i + DomBatchSize, totalPages |-> n,
   percentage |-> [num |-> 100 * (i + DomBatchSize), den |-> n]]

\* The progress object of loadPagesInParallel lines 243-248.  percentage is
\* (Math.min(i + batchSize, urls.length) / urls.length) * 100, kept as the
\* exact fraction num/den.
ProgressAfter(i, n) ==
  [currentPage |-> Min(i + DomBatchSize, n), totalPages |-> n,
   percentage |-> [num |-> 100 * Min(i + DomBatchSize, n), den |-> n]]

\* What happens to one progress event: the callback sends the message, the
\* send rejects later (the rejection ends in .catch(() => {})), or
\* chrome.runtime.sendMessage throws inside the callback.
Deliveries == {"sent", "rejected", "threw"}

\* await Promise.all(batchPromises) settles (or urls is empty): push the
\* batch, report progress, then start the next batch or return.  A throw of
\* the callback reaches the catch block of getAllPagesDataFast.
DomStep ==
  /\ pc = "dom"
  /\ \A p \in BatchPages(batchI, nPages) : iframes[p].settled
  /\ LET pushed == IF nPages = 0 THEN results
                   ELSE results \o ConcatRange([p \in PageIds |-> iframes[p].value],
                                               batchI + 1, Min(batchI + DomBatchSize, nPages))
         calls  == nPages > 0 /\ progressCallback # "null"
     IN \E delivery \in Deliveries : LET throws == delivery = "threw" IN
          /\ delivery # "sent" => calls
          /\ throws => faults < MaxFaults
          /\ results' = pushed
          /\ faults' = IF throws THEN faults + 1 ELSE faults
          /\ progressLog' = IF calls /\ ~throws
                            THEN Append(progressLog, ProgressAfter(batchI, nPages))
                            ELSE progressLog
          /\ IF throws
             THEN /\ result' = Failure(allPagesData, "progress callback threw")
                  /\ isProcessingAllPages' = FlagAtExit(FALSE)
                  /\ pc' = "done"
                  /\ UNCHANGED <<batchI, iframes>>
             ELSE IF batchI + DomBatchSize < nPages
             THEN /\ batchI' = batchI + DomBatchSize
                  /\ iframes' = [p \in PageIds |->
                                   IF p \in BatchPages(batchI + DomBatchSize, nPages)
                                   THEN NewIframe ELSE iframes[p]]
                  /\ UNCHANGED <<result, isProcessingAllPages, pc>>
             ELSE /\ result' = Success(pushed, totalCount)
                  /\ isProcessingAllPages' = FlagAtExit(TRUE)
                  /\ pc' = "done"
                  /\ UNCHANGED <<batchI, iframes>>
  /\ UNCHANGED <<totalCount, totalPages, progressCallback, apiEndpoint, authHeaders,
                 allPagesData, display, scanned, hostCall, path, nPages, startDisplay,
                 startTotal, startInfo, askedProgress, fetchSt, fetchRes, served>>

iframeFrame ==
  <<objVars, display, scanned, hostCall, pc, path, nPages, startDisplay, startTotal, startInfo, askedProgress,
    fetchSt, fetchRes, served, batchI, results, progressLog, result>>

\* The load event of page p's iframe is delivered to iframe.onload.  Reading
\* the document may throw; an iframe that is no longer in the document has
\* no contentDocument and no contentWindow, so reading it throws.
IframeLoad ==
  /\ pc = "dom"
  /\ \E p \in PageIds, throws \in BOOLEAN :
       /\ iframes[p].evt = "pending"
       /\ IF iframes[p].ifr = "attached"
          THEN /\ throws => faults < MaxFaults
               /\ faults' = IF throws THEN faults + 1 ELSE faults
          ELSE /\ throws
               /\ faults' = faults
       /\ iframes' = [iframes EXCEPT ![p] =
            [OnLoad(@, ExtractedPage[p], throws)
               EXCEPT !.evt = "delivered"]]
  /\ UNCHANGED iframeFrame

\* The error event of page p's iframe is delivered to iframe.onerror.
IframeError ==
  /\ pc = "dom"
  /\ \E p \in PageIds :
       /\ iframes[p].evt = "pending"
       /\ iframes[p].ifr = "attached" => faults < MaxFaults
       /\ faults' = IF iframes[p].ifr = "attached" THEN faults + 1 ELSE faults
       /\ iframes' = [iframes EXCEPT ![p] = [OnError(@) EXCEPT !.evt = "delivered"]]
  /\ UNCHANGED iframeFrame

\* The 10 s timer of page p's loadPageInIframe call fires.
TimerFires(p) ==
  /\ pc = "dom"
  /\ iframes[p].timer = "armed"
  /\ iframes' = [iframes EXCEPT ![p] = OnTimeout(@)]
  /\ UNCHANGED iframeFrame

IframeTimeout ==
  \E p \in PageIds :
    /\ faults < MaxFaults
    /\ faults' = faults + 1
    /\ TimerFires(p)

\* sendResponse(result): the listener hands the result to the popup; the
\* locals of the run are gone.
Return ==
  /\ pc = "done"
  /\ pc' = "idle"
  /\ path' = "none"
  /\ nPages' = 0
  /\ startDisplay' = 0
  /\ startTotal' = 0
  /\ startInfo' = <<"null", "null">>
  /\ askedProgress' = FALSE
  /\ fetchSt' = [p \in PageIds |-> "none"]
  /\ fetchRes' = [p \in PageIds |-> <<>>]
  /\ served' = {}
  /\ batchI' = 0
  /\ iframes' = [p \in PageIds |-> NoIframe]
  /\ results' = <<>>
  /\ progressLog' = <<>>
  /\ result' = NoResult
  /\ faults' = 0
  /\ UNCHANGED <<objVars, display, scanned, hostCall>>

Next ==
  \/ Scan
  \/ DisplayChange
  \/ HostFetch
  \/ HostXHR
  \/ StartRun
  \/ FetchDone
  \/ ApiFinish
  \/ DomStep
  \/ IframeLoad
  \/ IframeError
  \/ IframeTimeout
  \/ Return

Spec == Init /\ [][Next]_vars

(* ------------------------------------------------------------------ *)
(* Fallback runs with timers that always fire: no endpoint is ever     *)
(* discovered, the timer of a page load is not counted against the     *)
(* fault budget, and the event loop runs a due timer and a settled     *)
(* await.  The page shows FairCount results.                           *)
(* ------------------------------------------------------------------ *)
TimerElapses(p) == faults' = faults /\ TimerFires(p)

IframeTimer == \E p \in PageIds : TimerElapses(p)

FairInit == Init /\ display = FairCount

FairPages == 1..PagesFor(FairCount)

FairNext ==
  \/ Scan
  \/ StartRun
  \/ DomStep
  \/ IframeLoad
  \/ IframeError
  \/ IframeTimer
  \/ Return

FairSpec ==
  /\ FairInit
  /\ [][FairNext]_vars
  /\ \A p \in FairPages : WF_vars(TimerElapses(p))
  /\ WF_vars(DomStep)

(* ------------------------------------------------------------------ *)
(* Properties                                                          *)
(* ------------------------------------------------------------------ *)
Returned == result.returned

DataIdx == IF Returned THEN 1..Len(result.data) ELSE {}

\* C1: no record whose electronicNumber, internalNumber and totalAmount are
\* all empty appears in the data of a returned result, on either path.
C1_NoInvalidRecord ==
  \A i \in DataIdx : isValidInvoiceData(result.data[i])

\* C2: in the returned data every record of page N precedes every record of
\* page N+1, whatever order the fetches or iframe loads completed in.
C2_PageOrder ==
  \A i \in DataIdx : \A j \in DataIdx :
    i < j => result.data[i].pageNumber <= result.data[j].pageNumber

\* C2 witness: a fallback run returned records of page 1 (first batch) and
\* of page 6 (second batch) although a page in between contributed nothing.
C2_Witness ==
  /\ Returned /\ path = "dom" /\ result.success
  /\ \E i \in DataIdx : result.data[i].pageNumber = 1
  /\ \E i \in DataIdx : result.data[i].pageNumber = 6
  /\ \E p \in 2..5 : iframes[p].value = <<>>

BatchOf(p) == (p - 1) \div ApiBatchSize

\* C3: on the API path no fetch of a page of batch k+1 is issued while a
\* fetch of batch k is still in flight, and at most 10 fetches are in flight.
C3_BatchAwaited ==
  /\ \A p \in PageIds : \A q \in PageIds :
       (BatchOf(q) < BatchOf(p) /\ fetchSt[p] # "none") => fetchSt[q] # "inflight"
  /\ Cardinality({p \in PageIds : fetchSt[p] = "inflight"}) <= ApiBatchSize

\* C4: for every loadPage call the teardown of its iframe (removeChild) runs
\* at most once, whatever the order of its load, error and timeout events.
C4_SingleTeardown ==
  \A p \in PageIds : iframes[p].removeCalls <= 1

\* C5: once a loadPage call has resolved its iframe is not attached to the
\* document, and no iframe is attached when acquireAll has returned.
C5_NoAttachedIframe ==
  /\ \A p \in PageIds : iframes[p].settled => iframes[p].ifr # "attached"
  /\ pc = "done" => \A p \in PageIds : iframes[p].ifr # "attached"

\* C5 witness: a fallback run has returned after one page load timed out
\* (its load event is still outstanding) and another delivered records.
C5_Witness ==
  /\ pc = "done" /\ path = "dom"
  /\ \E p \in 1..nPages : iframes[p].settled /\ iframes[p].evt = "pending"
  /\ \E p \in 1..nPages : iframes[p].settled /\ iframes[p].value # <<>>

C7_FreshPagination ==
  /\ pc # "idle" => nPages = PagesFor(startDisplay)
  /\ (Returned /\ result.success) => result.expectedTotal = startDisplay

\* C8: a result with success=false carries an error description and the
\* records of the batches accumulated before the failure.
C8_PartialData ==
  (Returned /\ ~result.success) =>
     /\ result.error # ""
     /\ result.data = (IF path = "dom" THEN results ELSE ApiFlatten(fetchRes, nPages))

\* C9: fetchPage never raises, and an API run returns success=true with the
\* concatenation, in page order, of the records of exactly the pages the
\* portal answered well.
C9_FailedPageIsEmpty ==
  /\ \A p \in PageIds : fetchSt[p] # "rejected"
  /\ (pc = "done" /\ path = "api") =>
       /\ result.success
       /\ result.data =
            ConcatRange([p \in PageIds |-> IF p \in served THEN ParsedPage[p] ELSE <<>>],
                        1, nPages)

\* C9 witness: an API run has returned after the fetch of one page failed
\* and a later page of the same batch was answered.
C9_Witness ==
  /\ pc = "done" /\ path = "api"
  /\ \E p \in 1..nPages : \E q \in 1..nPages :
       p < q /\ p \notin served /\ q \in served /\ ParsedPage[q] # <<>>

StrictlyIncreasingSerials ==
  \A i \in DataIdx : \A j \in DataIdx :
    i < j => result.data[i].serialNumber < result.data[j].serialNumber

\* C10 (as claimed): the serialNumbers of the returned data are strictly
\* increasing, for any number of items each page yields.
C10_SerialsIncrease == StrictlyIncreasingSerials

\* C10 (amended): when no page of the run yields more than resultsPerPage
\* items, the serialNumbers of the returned data are strictly increasing
\* (hence unique), also across page boundaries.
C10_SerialsIncreaseWithinPageSize ==
  (\A p \in 1..nPages : ItemCount(p) <= ResultsPerPage) => StrictlyIncreasingSerials

\* C10 witness: a run over pages of 50, 50 and 20 items returned records of
\* all three pages.
C10_Witness ==
  /\ Returned /\ nPages = 3
  /\ \A p \in 1..3 : \E i \in DataIdx : result.data[i].pageNumber = p

\* The pages whose loads had completed when the k-th progress event of a
\* fallback run was built.
PagesCompleted(k) == Cardinality({p \in 1..nPages : p <= k * DomBatchSize})

\* C11: in a fallback run with a progress callback, one event is reported
\* after each completed batch, its percentage is (pages completed /
\* total pages) x 100, percentages never decrease, and 100 is reported only
\* by the event that follows the last batch.
C11_ProgressPercentage ==
  path = "dom" =>
    /\ \A k \in 1..Len(progressLog) :
         LET e == progressLog[k]
         IN /\ e.percentage.den = nPages
            /\ e.percentage.num = 100 * PagesCompleted(k)
            /\ e.percentage.num = 100 * e.percentage.den
                 => k = Ceil(nPages, DomBatchSize)
            /\ \A j \in 1..(k - 1) :
                 progressLog[j].percentage.num * e.percentage.den
                   <= e.percentage.num * progressLog[j].percentage.den
    /\ (pc = "dom" /\ progressCallback # "null")
         => Len(progressLog) = batchI \div DomBatchSize
    /\ (pc = "done" /\ progressCallback # "null" /\ result.success)
         => Len(progressLog) = Ceil(nPages, DomBatchSize)

\* C11 witness: a fallback run over six pages has returned after reporting
\* 5/6 and then 6/6 of the pages.
C11_Witness ==
  /\ pc = "done" /\ path = "dom" /\ result.success /\ nPages = 6
  /\ Len(progressLog) = 2
  /\ progressLog[1].percentage = [num |-> 500, den |-> 6]
  /\ progressLog[2].percentage = [num |-> 600, den |-> 6]

\* C12: a progress event that cannot be delivered (the callback throws, or
\* the send rejects later) never makes a fallback run return success=false
\* and never removes records from its result.
C12_DeliveryFailureIgnored ==
  (Returned /\ path = "dom") => (result.success /\ result.data = results)

\* C13: the host page gets from a wrapped fetch or XMLHttpRequest exactly
\* the response or failure the unwrapped call gives, also when inspecting
\* the URL or extracting credentials fails.
C13_TapTransparent == hostCall.wrapped = hostCall.unwrapped

\* C14: isProcessingAllPages is true from the start of a run until it
\* returns, and false once it has returned, with a result or a failure, on
\* either path.
C14_ProcessingFlag ==
  /\ pc \in {"api", "dom"} => isProcessingAllPages
  /\ pc \in {"idle", "done"} => ~isProcessingAllPages

\* C14 witness: a fallback run has returned a failure and the flag is down.
C14_Witness ==
  /\ pc = "done" /\ path = "dom" /\ Returned /\ ~result.success
  /\ ~isProcessingAllPages

\* C15: every returned result, successful or failed, carries totalProcessed
\* equal to the length of its data and expectedTotal equal to totalCount as
\* it was when the run started.
C15_ResultCounts ==
  Returned =>
    /\ {"totalProcessed", "expectedTotal"} \subseteq DOMAIN result
    /\ result.totalProcessed = Len(result.data)
    /\ result.expectedTotal = startTotal

\* The portal holds `count` documents in full pages but possibly the last.
FullPagesFor(count) ==
  \A p \in 1..Ceil(count, ResultsPerPage) :
    ItemCount(p) = Min(ResultsPerPage, count - (p - 1) * ResultsPerPage)

KnownAtStart == startInfo[1] # "null" /\ startInfo[2] # "null"

\* C17: a run fetches all its pages through the API exactly when both the
\* endpoint and the credentials are known at its start, otherwise it loads
\* all its pages in iframes; a missing endpoint or credential alone never
\* makes the run return success=false.
C17_PathChoice ==
  pc # "idle" =>
    /\ path = "api" <=> KnownAtStart
    /\ path = "dom" <=> ~KnownAtStart
    /\ path = "api" =>
         \A p \in PageIds : /\ iframes[p].ifr = "none"
                            /\ p <= nPages => fetchSt[p] # "none"
    /\ path = "dom" =>
         \A p \in PageIds : /\ fetchSt[p] = "none"
                            /\ (p <= nPages /\ pc = "done" /\ result.success)
                                 => iframes[p].ifr # "none"
    /\ (Returned /\ ~KnownAtStart /\ faults = 0) => result.success

\* C17 witness: a run started with an endpoint but no credentials has
\* returned records loaded in iframes.
C17_Witness ==
  /\ pc = "done" /\ path = "dom" /\ startInfo = <<"url", "null">>
  /\ result.success /\ result.data # <<>>
  /\ \A p \in 1..nPages : iframes[p].ifr = "removed"

\* C18: in every state, also before the first scan, totalPages is
\* ceil(totalCount / resultsPerPage).
C18_PageCountInvariant == totalPages = Ceil(totalCount, ResultsPerPage)

\* The batch of loadPagesInParallel page p belongs to.
DomBatchOf(p) == (p - 1) \div DomBatchSize

\* C19: on the fallback path no iframe of batch k+1 exists before every
\* page load of batch k has resolved, and at most 5 iframes are attached to
\* the document at any time.
C19_DomBatchBound ==
  /\ \A p \in PageIds : \A q \in PageIds :
       (DomBatchOf(q) < DomBatchOf(p) /\ iframes[p].ifr # "none") => iframes[q].settled
  /\ Cardinality({p \in PageIds : iframes[p].ifr = "attached"}) <= DomBatchSize

\* C19 witness: the second batch of a fallback run is loading (five iframes
\* attached) after the five loads of the first batch resolved.
C19_Witness ==
  /\ pc = "dom" /\ batchI = DomBatchSize
  /\ \A p \in 1..DomBatchSize : iframes[p].settled
  /\ Cardinality({p \in PageIds : iframes[p].ifr = "attached"}) = DomBatchSize

\* C20: once a request of the host page to a URL matching the documents-API
\* pattern has completed, made with fetch or with XMLHttpRequest, the
\* endpoint holds that URL, and the credentials are set when a token is
\* available.
C20_EndpointRecorded ==
  (hostCall.unwrapped = "response" /\ hostCall.matches) =>
     /\ apiEndpoint = "url"
     /\ hostCall.token => authHeaders = "bearer"

\* C21: progress events are emitted during a run only when the options of
\* the request that started it asked for them; a callback registered by an
\* earlier request makes no later request emit.
C21_ProgressOnlyWhenAsked ==
  (pc # "idle" /\ ~askedProgress) => progressLog = <<>>

====
